---- MODULE Spec2Model ----
(***************************************************************************)
(* A model of Bitmap<Pixel::BGR24> (Bitmap.h): one Bitmap object, the file *)
(* system it reads and writes, and the process's table of open FILE        *)
(* handles.                                                                *)
(*                                                                         *)
(* Fixed-width integers are represented by their two's-complement signed   *)
(* reading: a 32-bit value v stands for v mod 2^32 (so 4294967295 is -1),  *)
(* and a 64-bit value is a record [hi, lo] standing for                    *)
(* hi * 2^32 + lo mod 2^64 with lo a signed 32-bit value.  All magnitudes  *)
(* used are small, so + and * on the representatives are exact.            *)
(***************************************************************************)
EXTENDS Integers, Sequences, FiniteSets, TLC

VARIABLES alive, loaded, pixel_array, dib, file_header, dpi,
          fs, open_files, hist, last

vars == <<alive, loaded, pixel_array, dib, file_header, dpi,
          fs, open_files, hist, last>>

(***************************************************************************)
(* Bounds of the model.                                                    *)
(***************************************************************************)
MaxDim == 2      \* create/get/set arguments range over 0..MaxDim and the wrapping values
MaxAlloc == 4    \* the heap holds at most this many pixels in one new[]
FdLimit == 2     \* the process can hold this many FILE handles open
MaxDpi == 3000   \* create is explored for dpi values up to this one

(***************************************************************************)
(* enum BMPError                                                           *)
(***************************************************************************)
BMP_SUCCESS == 0
BMP_OOM == 57345
BMP_FILEERROR == 57346
BMP_OOB == 57347
BMP_NOTINIT == 57348
BMP_INVALID_HDR == 57349
BMP_INVALID_DIB == 57350
BMP_UNSUPPORTED_FMT == 57351
BMP_ALREADY_INIT == 57352
BMP_BAD_INPUT == 57353
\* not a BMPError: the call left by an exception of operator new[]
THROWS == -1

DEFAULT_DPI == 72
BM == 19778
BA == 16706
BITMAPINFOHEADER == 40
BITMAPV5HEADER == 124
BI_RGB == 0
BI_RLE8 == 1
RGB24 == 24
RGB32 == 32
SizeofPixel == 3
SizeofFileHeader == 14

(***************************************************************************)
(* Integer representations.                                                *)
(***************************************************************************)
U64(h, l) == [hi |-> h, lo |-> l]

\* uint64 * uint64
Mul64(a, b) == [hi |-> a.hi * b.lo + b.hi * a.lo, lo |-> a.lo * b.lo]

\* static_cast<int32_t> / <uint32_t> of a uint64: the low word
Lo32(a) == a.lo

\* int32 -> uint64 / size_t: sign extension
SExt(n) == [hi |-> 0, lo |-> n]

\* uint32 -> uint64: zero extension
ZExt(n) == [hi |-> IF n < 0 THEN 1 ELSE 0, lo |-> n]

\* a >= b on unsigned 32-bit values
UGe32(x, y) == IF (x < 0) = (y < 0) THEN x >= y ELSE x < 0

\* the unsigned high word of a 64-bit value
UHi(a) == a.hi - (IF a.lo < 0 THEN 1 ELSE 0)

\* a >= b on unsigned 64-bit values
UGe(a, b) == IF UHi(a) = UHi(b) THEN UGe32(a.lo, b.lo) ELSE UGe32(UHi(a), UHi(b))

\* a size_t that a new[] of the modelled heap can satisfy
Fits(n) == n.hi = 0 /\ n.lo >= 0 /\ n.lo <= MaxAlloc

(***************************************************************************)
(* Memory images of the structs on the little-endian host the code's       *)
(* fread/fwrite of raw structs assume.                                     *)
(***************************************************************************)
LE(v, n) == [k \in 1..n |-> (v \div (256 ^ (k - 1))) % 256]

DecU16(b) == b[1] + 256 * b[2]

DecI32(b) == b[1] + 256 * b[2] + 65536 * b[3]
             + 16777216 * (IF b[4] >= 128 THEN b[4] - 256 ELSE b[4])

Slice(s, from, n) == [k \in 1..n |-> s[from + k - 1]]

EncFileHeader(fh) ==
    LE(fh.header_type, 2) \o LE(fh.size, 4) \o fh.rsvd1 \o fh.rsvd2 \o LE(fh.offset, 4)

DecFileHeader(b) ==
    [header_type |-> DecU16(Slice(b, 1, 2)),
     size        |-> DecI32(Slice(b, 3, 4)),
     rsvd1       |-> Slice(b, 7, 2),
     rsvd2       |-> Slice(b, 9, 2),
     offset      |-> DecI32(Slice(b, 11, 4))]

EncDib(d) ==
    LE(d.size, 4) \o LE(d.width, 4) \o LE(d.height, 4) \o LE(d.color_planes, 2)
    \o LE(d.bbp, 2) \o LE(d.compression, 4) \o LE(d.raw_size, 4) \o LE(d.hres, 4)
    \o LE(d.vres, 4) \o LE(d.n_colors, 4) \o LE(d.icolors, 4)

DecDib(b) ==
    [size         |-> DecI32(Slice(b, 1, 4)),
     width        |-> DecI32(Slice(b, 5, 4)),
     height       |-> DecI32(Slice(b, 9, 4)),
     color_planes |-> DecU16(Slice(b, 13, 2)),
     bbp          |-> DecU16(Slice(b, 15, 2)),
     compression  |-> DecI32(Slice(b, 17, 4)),
     raw_size     |-> DecI32(Slice(b, 21, 4)),
     hres         |-> DecI32(Slice(b, 25, 4)),
     vres         |-> DecI32(Slice(b, 29, 4)),
     n_colors     |-> DecI32(Slice(b, 33, 4)),
     icolors      |-> DecI32(Slice(b, 37, 4))]

RECURSIVE EncPixels(_)
EncPixels(px) == IF px = <<>> THEN <<>> ELSE Head(px) \o EncPixels(Tail(px))

DecPixels(b) == [k \in 1..(Len(b) \div SizeofPixel) |-> Slice(b, SizeofPixel * (k - 1) + 1, SizeofPixel)]

\* fread(buf, n, 1, f) at file position pos: the bytes the file still has
\* overwrite the front of buf, the rest of buf keeps what it held
FreadCount(n, f, pos) == IF Len(f) - pos >= n THEN n ELSE Len(f) - pos

Fread(buf, n, f, pos) ==
    [k \in 1..n |-> IF k <= FreadCount(n, f, pos) THEN f[pos + k] ELSE buf[k]]

Zeros(n) == [k \in 1..n |-> 0]

(***************************************************************************)
(* The state of a Bitmap object and of its environment.                    *)
(***************************************************************************)
Null == [ptr |-> "null", mem |-> <<>>]
Wild == [ptr |-> "wild", mem |-> <<>>]
Heap(m) == [ptr |-> "heap", mem |-> m]

ZeroPixel == <<0, 0, 0>>
SomePixel == <<1, 2, 3>>
PixelVals == {ZeroPixel, SomePixel}

ZeroFileHeader ==
    [header_type |-> 0, size |-> 0, rsvd1 |-> <<0, 0>>, rsvd2 |-> <<0, 0>>, offset |-> 0]

ZeroDib ==
    [size |-> 0, width |-> 0, height |-> 0, color_planes |-> 0, bbp |-> 0,
     compression |-> 0, raw_size |-> 0, hres |-> 0, vres |-> 0, n_colors |-> 0,
     icolors |-> 0]

\* the outcomes of new Pixel[n]: the buffer, std::bad_alloc thrown, or (an
\* allocator that reports failure by value, which the code tests for) nullptr
NewOutcomes(n) == IF Fits(n) THEN {"ok", "throw", "null"} ELSE {"throw", "null"}


(***************************************************************************)
(* The files of the environment.                                           *)
(***************************************************************************)
OutPath == "out.bmp"
NoDirPath == "nodir/out.bmp"
MissingPath == "missing.bmp"

\* a 1x1 24-bit image as other BMP writers store it: one row padded to 4 bytes
StdFileHeader ==
    [header_type |-> BM, size |-> 58, rsvd1 |-> <<0, 0>>, rsvd2 |-> <<0, 0>>, offset |-> 54]

StdDib ==
    [size |-> BITMAPINFOHEADER, width |-> 1, height |-> 1, color_planes |-> 1,
     bbp |-> RGB24, compression |-> BI_RGB, raw_size |-> 4, hres |-> 2835,
     vres |-> 2835, n_colors |-> 0, icolors |-> 0]

MkFile(fh, d, payload) == EncFileHeader(fh) \o EncDib(d) \o payload

InputFiles ==
    [p \in {"std1x1.bmp", "bad_magic.bmp", "v5.bmp", "bpp32.bmp", "rle.bmp",
            "planes0.bmp", "neg.bmp", "topdown.bmp", "trunc.bmp", "empty.bmp"} |->
       CASE p = "std1x1.bmp"   -> MkFile(StdFileHeader, StdDib, SomePixel \o <<0>>)
         [] p = "bad_magic.bmp" ->
              MkFile([StdFileHeader EXCEPT !.header_type = BA], StdDib, SomePixel \o <<0>>)
         [] p = "v5.bmp"       ->
              MkFile(StdFileHeader, [StdDib EXCEPT !.size = BITMAPV5HEADER], SomePixel \o <<0>>)
         [] p = "bpp32.bmp"    ->
              MkFile(StdFileHeader, [StdDib EXCEPT !.bbp = RGB32], <<1, 2, 3, 4>>)
         [] p = "rle.bmp"      ->
              MkFile(StdFileHeader, [StdDib EXCEPT !.compression = BI_RLE8], SomePixel \o <<0>>)
         [] p = "planes0.bmp"  ->
              MkFile(StdFileHeader, [StdDib EXCEPT !.color_planes = 0], SomePixel \o <<0>>)
         [] p = "neg.bmp"      ->
              MkFile(StdFileHeader, [StdDib EXCEPT !.width = -1, !.height = -1], SomePixel \o <<0>>)
         [] p = "topdown.bmp"  ->
              MkFile(StdFileHeader, [StdDib EXCEPT !.height = -1], SomePixel \o <<0>>)
         [] p = "trunc.bmp"    ->
              MkFile(StdFileHeader, [StdDib EXCEPT !.width = 2], SomePixel)
         [] OTHER              -> <<>>]

WritePaths == {OutPath, NoDirPath}

\* fopen(filename, "rb") / fopen(filename, "wb+") succeed
CanOpenRead(filename) == filename \in DOMAIN fs /\ open_files < FdLimit
CanOpenWrite(filename) == filename = OutPath /\ open_files < FdLimit

(***************************************************************************)
(* The arguments the operations are called with.                           *)
(***************************************************************************)
\* uint32_t arguments: 0..MaxDim and 4294967295
U32Args == (0..MaxDim) \cup {-1}
\* uint64_t arguments: 0..MaxDim, 2^64 - 1 and 2^32
U64Args == {U64(0, k) : k \in (0..MaxDim) \cup {-1}} \cup {U64(1, 0)}
RsvdArgs == {<<>>, <<9, 8, 7, 6>>}

NoArg == U64(0, 0)

Call(op, path, row, col, ret, out, ub) ==
    [op |-> op, path |-> path, row |-> row, col |-> col, ret |-> ret, out |-> out, ub |-> ub]

Returns(op, path, row, col, ret, out) == last' = Call(op, path, row, col, ret, out, FALSE)

(***************************************************************************)
(* Bitmap::Bitmap and Bitmap::~Bitmap                                      *)
(***************************************************************************)
\* The constructor initialises loaded and dpi only: pixel_array, dib and
\* file_header hold whatever the object's storage held.  pixel_array is read
\* before it is assigned (by the destructor, by get and by set), so its
\* indeterminate value is a choice of null or not null; the headers are left
\* as the storage has them.
Bitmap(_dpi) ==
    /\ ~alive
    /\ alive' = TRUE
    /\ loaded' = FALSE
    /\ dpi' = _dpi
    /\ pixel_array' \in {Null, Wild}
    /\ hist' = [hist EXCEPT !.inst = <<>>, !.rejected = FALSE]
    /\ last' = Call("Bitmap", "", NoArg, NoArg, BMP_SUCCESS, <<_dpi>>, FALSE)
    /\ UNCHANGED <<dib, file_header, fs, open_files>>

\* delete[] of a pointer that no new[] returned is undefined: the step
\* records it in last.ub
Destructor ==
    /\ alive
    /\ alive' = FALSE
    /\ pixel_array' = Null
    /\ dib' = ZeroDib
    /\ file_header' = ZeroFileHeader
    /\ loaded' = FALSE
    /\ hist' = [hist EXCEPT !.inst = <<>>, !.rejected = FALSE]
    /\ last' = Call("~Bitmap", "", NoArg, NoArg, BMP_SUCCESS, <<>>, pixel_array.ptr = "wild")
    /\ UNCHANGED <<dpi, fs, open_files>>

(***************************************************************************)
(* Bitmap::load                                                            *)
(***************************************************************************)
\* What the n pixels of new Pixel[n] hold before the fread: the memory is
\* uninitialised, so the pixels the file has no bytes for are arbitrary
\* (the others are overwritten, and are taken as zero here).
Garbage(n, f, pos) ==
    {[k \in 1..n |-> IF k * SizeofPixel <= Len(f) - pos THEN ZeroPixel ELSE g[k]] :
        g \in [1..n -> PixelVals]}

\* the pixel memory after fread(pixel_array, n * sizeof(Pixel), 1, fptr)
ReadPixels(garbage, n, f, pos) ==
    DecPixels(Fread(EncPixels(garbage), n * SizeofPixel, f, pos))

\* the test of the magic tag left out
IsBM_Any(fh) == TRUE

\* line 514: the test of the magic tag
IsBM(fh) == fh.header_type = BM

\* lines 507-553, after the test of loaded
load_body(filename) ==
    IF ~CanOpenRead(filename)
    THEN /\ Returns("load", filename, NoArg, NoArg, BMP_FILEERROR, <<>>)
         /\ UNCHANGED <<alive, loaded, pixel_array, dib, file_header, dpi, fs, open_files, hist>>
    ELSE
      LET f    == fs[filename]
          fh   == DecFileHeader(Fread(EncFileHeader(file_header), SizeofFileHeader, f, 0))
          pos1 == FreadCount(SizeofFileHeader, f, 0)
          d    == DecDib(Fread(EncDib(dib), BITMAPINFOHEADER, f, pos1))
          pos2 == pos1 + FreadCount(BITMAPINFOHEADER, f, pos1)
          n    == SExt(d.width * d.height)
      IN
      IF ~IsBM(fh)
      THEN /\ file_header' = fh
           /\ open_files' = open_files + 1
           /\ hist' = [hist EXCEPT !.rejected = TRUE]
           /\ Returns("load", filename, NoArg, NoArg, BMP_INVALID_HDR, <<>>)
           /\ UNCHANGED <<alive, loaded, pixel_array, dib, dpi, fs>>
      ELSE IF d.size # BITMAPINFOHEADER \/ d.bbp # 8 * SizeofPixel \/ d.compression # BI_RGB
      THEN /\ file_header' = fh
           /\ dib' = d
           /\ open_files' = open_files + 1
           /\ Returns("load", filename, NoArg, NoArg, BMP_UNSUPPORTED_FMT, <<>>)
           /\ UNCHANGED <<alive, loaded, pixel_array, dpi, fs, hist>>
      ELSE IF d.color_planes # 1
      THEN /\ file_header' = fh
           /\ dib' = d
           /\ open_files' = open_files + 1
           /\ Returns("load", filename, NoArg, NoArg, BMP_INVALID_DIB, <<>>)
           /\ UNCHANGED <<alive, loaded, pixel_array, dpi, fs, hist>>
      ELSE
        /\ file_header' = fh
        /\ dib' = d
        /\ dpi' = d.hres
        /\ \E o \in NewOutcomes(n) :
             CASE o = "ok" ->
                    /\ \E garbage \in Garbage(n.lo, f, pos2) :
                         pixel_array' = Heap(ReadPixels(garbage, n.lo, f, pos2))
                    /\ loaded' = TRUE
                    /\ open_files' = open_files
                    /\ Returns("load", filename, NoArg, NoArg, BMP_SUCCESS, <<>>)
               [] o = "throw" ->
                    /\ open_files' = open_files + 1
                    /\ Returns("load", filename, NoArg, NoArg, THROWS, <<>>)
                    /\ UNCHANGED <<loaded, pixel_array>>
               [] o = "null" ->
                    /\ pixel_array' = Null
                    /\ open_files' = open_files + 1
                    /\ Returns("load", filename, NoArg, NoArg, BMP_OOM, <<>>)
                    /\ UNCHANGED loaded
        /\ UNCHANGED <<alive, fs, hist>>

\* load without the test of loaded
load_Unguarded(filename) ==
    /\ alive
    /\ load_body(filename)

load(filename) ==
    /\ alive
    /\ IF loaded
       THEN /\ Returns("load", filename, NoArg, NoArg, BMP_ALREADY_INIT, <<>>)
            /\ UNCHANGED <<alive, loaded, pixel_array, dib, file_header, dpi, fs, open_files, hist>>
       ELSE load_body(filename)

(***************************************************************************)
(* Bitmap::create                                                          *)
(***************************************************************************)
\* the product rounded to the nearest integer instead
Resolution_Rounded(d) == (d * 393701 + 5000) \div 10000

\* static_cast<uint32_t>(dpi * 39.3701): the double product, truncated.
\* Exact for 0 <= dpi < 10000, where the product is at least 0.0001 away
\* from the integers it lies between.
Resolution(d) == (d * 393701) \div 10000

\* the buffer of new Pixel[n] left as allocated, holding non-zero bytes
ZeroFill_Omitted(n) == [k \in 1..n |-> SomePixel]

\* memset(pixel_array, 0, width * height * sizeof(Pixel))
ZeroFill(n) == [k \in 1..n |-> ZeroPixel]

\* lines 564-593, after the test of loaded
create_body(w, h) ==
    LET n   == Mul64(w, h)
        raw == Lo32(Mul64(n, SExt(SizeofPixel)))
        off == BITMAPINFOHEADER + SizeofFileHeader
    IN
    /\ file_header' = [file_header EXCEPT !.header_type = BM, !.offset = off,
                                          !.size = off + raw]
    /\ dib' = [size |-> BITMAPINFOHEADER, width |-> Lo32(w), height |-> Lo32(h),
               color_planes |-> 1, bbp |-> 8 * SizeofPixel, compression |-> BI_RGB,
               raw_size |-> raw, hres |-> Resolution(dpi), vres |-> Resolution(dpi),
               n_colors |-> 0, icolors |-> 0]
    /\ \E o \in NewOutcomes(n) :
         CASE o = "ok" ->
                /\ pixel_array' = Heap(ZeroFill(n.lo))
                /\ loaded' = TRUE
                /\ hist' = [hist EXCEPT !.inst = <<Lo32(w), Lo32(h)>>]
                /\ Returns("create", "", w, h, BMP_SUCCESS, <<>>)
           [] o = "throw" ->
                /\ Returns("create", "", w, h, THROWS, <<>>)
                /\ UNCHANGED <<loaded, pixel_array, hist>>
           [] o = "null" ->
                /\ pixel_array' = Null
                /\ Returns("create", "", w, h, BMP_OOM, <<>>)
                /\ UNCHANGED <<loaded, hist>>
    /\ UNCHANGED <<alive, dpi, fs, open_files>>

create(w, h) ==
    /\ alive
    /\ dpi \in 0..MaxDpi
    /\ IF loaded
       THEN /\ Returns("create", "", w, h, BMP_ALREADY_INIT, <<>>)
            /\ UNCHANGED <<alive, loaded, pixel_array, dib, file_header, dpi, fs, open_files, hist>>
       ELSE create_body(w, h)

(***************************************************************************)
(* Bitmap::write                                                           *)
(***************************************************************************)
\* lines 615-623: the number of zero bytes appended
Padding(size) == IF size % 4 > 0 THEN 4 - (size % 4) ELSE 0

\* lines 610-623: the bytes written
WriteImage(fh, d, px) ==
    EncFileHeader(fh) \o EncDib(d)
    \o Slice(EncPixels(px), 1, d.width * d.height * SizeofPixel)
    \o Zeros(Padding(fh.size))

write(filename) ==
    /\ alive
    /\ IF ~loaded
       THEN /\ Returns("write", filename, NoArg, NoArg, BMP_NOTINIT, <<>>)
            /\ UNCHANGED <<fs, hist>>
       ELSE IF ~CanOpenWrite(filename)
       THEN /\ Returns("write", filename, NoArg, NoArg, BMP_FILEERROR, <<>>)
            /\ UNCHANGED <<fs, hist>>
       ELSE /\ fs' = [p \in DOMAIN fs \cup {filename} |->
                        IF p = filename THEN WriteImage(file_header, dib, pixel_array.mem)
                        ELSE fs[p]]
            /\ hist' = [hist EXCEPT !.file = hist.inst]
            /\ Returns("write", filename, NoArg, NoArg, BMP_SUCCESS, <<>>)
    /\ UNCHANGED <<alive, loaded, pixel_array, dib, file_header, dpi, open_files>>

(***************************************************************************)
(* Bitmap::get, Bitmap::set, Bitmap::width, Bitmap::height                 *)
(***************************************************************************)
pixel_index(row, col) == SExt(row + (col * dib.width))

pixel_max == SExt(dib.width * dib.height)

\* get takes uint32_t row and col and passes them to pixel_index as int32_t
get(row, col) ==
    /\ alive
    /\ IF pixel_array.ptr = "null" \/ ~loaded
       THEN Returns("get", "", ZExt(row), ZExt(col), BMP_NOTINIT, <<>>)
       ELSE IF UGe(pixel_index(row, col), pixel_max)
       THEN Returns("get", "", ZExt(row), ZExt(col), BMP_OOB, <<>>)
       ELSE Returns("get", "", ZExt(row), ZExt(col), BMP_SUCCESS,
                    pixel_array.mem[pixel_index(row, col).lo + 1])
    /\ UNCHANGED <<alive, loaded, pixel_array, dib, file_header, dpi, fs, open_files, hist>>

\* set takes uint64_t row and col and passes them to pixel_index as int32_t
set(row, col, pixel) ==
    /\ alive
    /\ IF pixel_array.ptr = "null" \/ ~loaded
       THEN /\ Returns("set", "", row, col, BMP_NOTINIT, pixel)
            /\ UNCHANGED <<pixel_array, hist>>
       ELSE IF UGe(pixel_index(Lo32(row), Lo32(col)), pixel_max)
       THEN /\ Returns("set", "", row, col, BMP_OOB, pixel)
            /\ UNCHANGED <<pixel_array, hist>>
       ELSE /\ pixel_array' = [pixel_array EXCEPT
                                 !.mem[pixel_index(Lo32(row), Lo32(col)).lo + 1] = pixel]
            /\ hist' = [hist EXCEPT !.inst = <<>>]
            /\ Returns("set", "", row, col, BMP_SUCCESS, pixel)
    /\ UNCHANGED <<alive, loaded, dib, file_header, dpi, fs, open_files>>

\* width without the test of loaded
width_Unguarded ==
    /\ alive
    /\ Returns("width", "", NoArg, NoArg, dib.width, <<>>)
    /\ UNCHANGED <<alive, loaded, pixel_array, dib, file_header, dpi, fs, open_files, hist>>

width ==
    /\ alive
    /\ Returns("width", "", NoArg, NoArg, IF loaded THEN dib.width ELSE BMP_NOTINIT, <<>>)
    /\ UNCHANGED <<alive, loaded, pixel_array, dib, file_header, dpi, fs, open_files, hist>>

height ==
    /\ alive
    /\ Returns("height", "", NoArg, NoArg, IF loaded THEN dib.width ELSE BMP_NOTINIT, <<>>)
    /\ UNCHANGED <<alive, loaded, pixel_array, dib, file_header, dpi, fs, open_files, hist>>

(***************************************************************************)
(* Bitmap::WriteHeaderRsvd, Bitmap::ReadHeaderRsvd; data = <<>> is nullptr *)
(***************************************************************************)
WriteHeaderRsvd(data) ==
    /\ alive
    /\ IF ~loaded
       THEN /\ Returns("WriteHeaderRsvd", "", NoArg, NoArg, BMP_NOTINIT, data)
            /\ UNCHANGED <<file_header, hist>>
       ELSE IF data = <<>>
       THEN /\ Returns("WriteHeaderRsvd", "", NoArg, NoArg, BMP_BAD_INPUT, data)
            /\ UNCHANGED <<file_header, hist>>
       ELSE /\ file_header' = [file_header EXCEPT !.rsvd1 = <<data[1], data[2]>>,
                                                  !.rsvd2 = <<data[3], data[4]>>]
            /\ hist' = [hist EXCEPT !.inst = <<>>]
            /\ Returns("WriteHeaderRsvd", "", NoArg, NoArg, BMP_SUCCESS, data)
    /\ UNCHANGED <<alive, loaded, pixel_array, dib, dpi, fs, open_files>>

ReadHeaderRsvd(data) ==
    /\ alive
    /\ IF ~loaded
       THEN Returns("ReadHeaderRsvd", "", NoArg, NoArg, BMP_NOTINIT, data)
       ELSE IF data = <<>>
       THEN Returns("ReadHeaderRsvd", "", NoArg, NoArg, BMP_BAD_INPUT, data)
       ELSE Returns("ReadHeaderRsvd", "", NoArg, NoArg, BMP_SUCCESS,
                    file_header.rsvd1 \o file_header.rsvd2)
    /\ UNCHANGED <<alive, loaded, pixel_array, dib, file_header, dpi, fs, open_files, hist>>

(***************************************************************************)
(* Spec: the life of an object.  It is constructed, used through every     *)
(* operation and destroyed, and the storage is constructed again.  The     *)
(* files are one per way load returns, the images one or two pixels.       *)
(***************************************************************************)
InitWith(dpis, files) ==
    /\ alive = TRUE
    /\ loaded = FALSE
    /\ dpi \in dpis
    /\ pixel_array \in {Null, Wild}
    /\ dib = ZeroDib
    /\ file_header = ZeroFileHeader
    /\ fs = [p \in files |-> InputFiles[p]]
    /\ open_files = 0
    /\ hist = [inst |-> <<>>, file |-> <<>>, rejected |-> FALSE]
    /\ last = Call("Bitmap", "", NoArg, NoArg, BMP_SUCCESS, <<dpi>>, FALSE)

LifeFiles == {"std1x1.bmp", "bad_magic.bmp", "v5.bmp", "planes0.bmp"}

Init == InitWith({DEFAULT_DPI}, LifeFiles)

Next ==
    \/ Bitmap(DEFAULT_DPI)
    \/ Destructor
    \/ \E filename \in LifeFiles \cup {OutPath, MissingPath} : load(filename)
    \/ create(U64(0, 1), U64(0, 1))
    \/ \E filename \in WritePaths : write(filename)
    \/ \E row \in 0..1 : get(row, 0)
    \/ \E row \in 0..1 : set(U64(0, row), U64(0, 0), SomePixel)
    \/ width
    \/ height
    \/ \E data \in RsvdArgs : WriteHeaderRsvd(data)
    \/ \E data \in RsvdArgs : ReadHeaderRsvd(data)

Spec == Init /\ [][Next]_vars

(***************************************************************************)
(* SpecPixel: the pixel accessors of a created image, over every argument  *)
(* the signatures of create, get and set distinguish.                      *)
(***************************************************************************)
NextPixel ==
    \/ \E w \in U64Args, h \in U64Args : create(w, h)
    \/ \E row \in U32Args, col \in U32Args : get(row, col)
    \/ \E row \in U64Args, col \in U64Args, pixel \in PixelVals : set(row, col, pixel)
    \/ width
    \/ height

SpecPixel == InitWith({DEFAULT_DPI}, {}) /\ [][NextPixel]_vars

(***************************************************************************)
(* SpecFile: images created with every size, written, and loaded back by a *)
(* new object.                                                             *)
(***************************************************************************)
FileDims == {U64(0, k) : k \in (0..MaxDim) \cup {-1}}

NextFile ==
    \/ Bitmap(DEFAULT_DPI)
    \/ Destructor
    \/ \E filename \in {OutPath, MissingPath} : load(filename)
    \/ \E w \in FileDims, h \in FileDims : create(w, h)
    \/ \E filename \in WritePaths : write(filename)

SpecFile == InitWith({DEFAULT_DPI}, {}) /\ [][NextFile]_vars

(***************************************************************************)
(* SpecLoad: every input file, loaded and written back.                    *)
(***************************************************************************)
NextLoad ==
    \/ Bitmap(DEFAULT_DPI)
    \/ Destructor
    \/ \E filename \in DOMAIN InputFiles \cup {OutPath, MissingPath} : load(filename)
    \/ \E filename \in WritePaths : write(filename)

SpecLoad == InitWith({DEFAULT_DPI}, DOMAIN InputFiles) /\ [][NextLoad]_vars

(***************************************************************************)
(* SpecDpi: create under every dpi the constructor is given.               *)
(***************************************************************************)
DpiArgs == 0..120

NextDpi ==
    \/ \E d \in DpiArgs : Bitmap(d)
    \/ Destructor
    \/ create(U64(0, 1), U64(0, 1))

SpecDpi == InitWith(DpiArgs, {}) /\ [][NextDpi]_vars

(***************************************************************************)
(* The claims.                                                             *)
(***************************************************************************)
Unloaded == alive /\ ~loaded
Loaded == alive /\ loaded

\* C1: Loaded is absorbing under every operation but destruction, and a load
\* or create called on a Loaded object returns BMP_ALREADY_INIT and leaves
\* the headers, the dpi and the pixel buffer as they were.
C1_LoadedAbsorbing ==
    [][(Loaded /\ last'.op # "~Bitmap") =>
          /\ loaded'
          /\ last'.op \in {"load", "create"} =>
                /\ last'.ret = BMP_ALREADY_INIT
                /\ UNCHANGED <<dib, file_header, dpi, pixel_array>>]_vars

C1_Witness ==
    /\ Loaded
    /\ last.op = "load"
    /\ last.ret = BMP_ALREADY_INIT
    /\ last.path = "std1x1.bmp"

\* C2: no call of load leaves a file handle open: whenever an operation has
\* returned, every FILE the object opened is closed.
C2_HandleReleased == open_files = 0

\* C3: a load of a file whose first two bytes are not "BM" returns
\* BMP_INVALID_HDR and leaves the object Unloaded, and no load called on an
\* Unloaded object returns BMP_ALREADY_INIT.
BadMagic(f) == Len(f) >= 2 /\ <<f[1], f[2]>> # <<66, 77>>

C3_BadMagicRejected ==
    [][(Unloaded /\ last'.op = "load") =>
          /\ last'.ret # BMP_ALREADY_INIT
          /\ (/\ last'.path \in DOMAIN fs
              /\ open_files < FdLimit
              /\ BadMagic(fs[last'.path])) =>
                (last'.ret = BMP_INVALID_HDR /\ Unloaded')]_vars

\* a load that succeeded on an object that an earlier load had rejected
C3_Witness ==
    /\ hist.rejected
    /\ Loaded
    /\ last.op = "load"
    /\ last.ret = BMP_SUCCESS

\* C4: the destructor never passes to delete[] a pointer that no new[] of
\* this object returned.
C4_SafeDestruction == last.op = "~Bitmap" => ~last.ub

\* C5: on a Loaded object width() returns the stored width and height() the
\* stored height.
C5_Dimensions ==
    Loaded =>
      /\ last.op = "width" => last.ret = dib.width
      /\ last.op = "height" => last.ret = dib.height

\* C6: on a Loaded object get(r, c) and set(r, c, P) return BMP_OOB and leave
\* the buffer alone whenever r + c * width, computed from the arguments as
\* they are passed, is at least width * height, and otherwise succeed on
\* element r + c * width, which set makes P and get returns.
InRange(a) == a.hi = 0 /\ a.lo >= 0

IndexOutOfBounds(row, col) ==
    \/ ~InRange(row)
    \/ ~InRange(col)
    \/ row.lo + col.lo * dib.width >= dib.width * dib.height

C6_BoundsChecked ==
    [][(Loaded /\ dib.width >= 0 /\ dib.height >= 0 /\ last'.op \in {"get", "set"}) =>
          IF IndexOutOfBounds(last'.row, last'.col)
          THEN last'.ret = BMP_OOB /\ UNCHANGED pixel_array
          ELSE LET i == last'.row.lo + last'.col.lo * dib.width + 1 IN
               /\ last'.ret = BMP_SUCCESS
               /\ last'.op = "set" => pixel_array'.mem[i] = last'.out
               /\ last'.op = "get" => last'.out = pixel_array.mem[i]]_vars

\* C7: a load of the file that write produced from a just created image
\* returns BMP_SUCCESS whenever it could open the file and allocate the
\* buffer, and gives the stored width and height of the created image and a
\* buffer of width * height zero pixels.
C7_RoundTrip ==
    (/\ last.op = "load"
     /\ last.path = OutPath
     /\ hist.file # <<>>
     /\ last.ret \notin {BMP_ALREADY_INIT, BMP_FILEERROR, BMP_OOM, THROWS}) =>
        /\ last.ret = BMP_SUCCESS
        /\ Loaded
        /\ <<dib.width, dib.height>> = hist.file
        /\ Len(pixel_array.mem) = dib.width * dib.height
        /\ \A k \in 1..Len(pixel_array.mem) : pixel_array.mem[k] = ZeroPixel

\* a reloaded 2x2 image: 66 bytes of headers and pixels, 2 of padding
C7_Witness ==
    /\ last.op = "load"
    /\ last.path = OutPath
    /\ last.ret = BMP_SUCCESS
    /\ hist.file = <<2, 2>>
    /\ Len(pixel_array.mem) = 4
    /\ Len(fs[OutPath]) = 68

\* C8 as stated: create sets both resolution fields to dpi * 39.3701 rounded
\* to the nearest integer, 2837 for dpi = 72.
C8_Rounded ==
    (last.op = "create" /\ last.ret # BMP_ALREADY_INIT) =>
        /\ dib.hres = dib.vres
        /\ 2 * 10000 * dib.hres - 10000 <= 2 * 393701 * dpi
        /\ 2 * 393701 * dpi < 2 * 10000 * dib.hres + 10000
        /\ dpi = 72 => dib.hres = 2837

\* C8 as amended: create sets both resolution fields to dpi * 39.3701
\* truncated to an integer, 2834 for dpi = 72.
C8_Truncated ==
    (last.op = "create" /\ last.ret # BMP_ALREADY_INIT) =>
        /\ dib.hres = dib.vres
        /\ 10000 * dib.hres <= 393701 * dpi
        /\ 393701 * dpi < 10000 * (dib.hres + 1)
        /\ dpi = 72 => dib.hres = 2834

C8_Witness ==
    /\ last.op = "create"
    /\ last.ret = BMP_SUCCESS
    /\ dpi = 72
    /\ dib.hres = 2834
    /\ dib.vres = 2834

\* C9: create leaves raw_size = width * height * sizeof(Pixel), offset = 54
\* and size = offset + raw_size, and the file write produces is the 14 bytes
\* of the file header, the 40 of the DIB header, the pixels, and zero bytes
\* up to a length that is a multiple of 4.
C9_Layout ==
    /\ (last.op = "create" /\ last.ret = BMP_SUCCESS) =>
          /\ dib.raw_size = dib.width * dib.height * SizeofPixel
          /\ file_header.offset = 54
          /\ file_header.size = file_header.offset + dib.raw_size
    /\ (last.op = "write" /\ last.ret = BMP_SUCCESS) =>
          LET f == fs[OutPath]
              n == 54 + dib.width * dib.height * SizeofPixel
          IN /\ Len(f) >= n
             /\ SubSeq(f, 1, 14) = EncFileHeader(file_header)
             /\ SubSeq(f, 15, 54) = EncDib(dib)
             /\ SubSeq(f, 55, n) = EncPixels(pixel_array.mem)
             /\ \A k \in (n + 1)..Len(f) : f[k] = 0
             /\ Len(f) % 4 = 0

\* C10: on an Unloaded object get, set, width, height, write,
\* WriteHeaderRsvd and ReadHeaderRsvd return BMP_NOTINIT and change nothing.
C10_NotInitialized ==
    [][(Unloaded /\ last'.op \in {"get", "set", "width", "height", "write",
                                  "WriteHeaderRsvd", "ReadHeaderRsvd"}) =>
          /\ last'.ret = BMP_NOTINIT
          /\ UNCHANGED <<alive, loaded, pixel_array, dib, file_header, dpi, fs, open_files>>]_vars

\* width() called on an object left Unloaded by a load that failed after it
\* had overwritten the headers
C10_Witness ==
    /\ Unloaded
    /\ dib.width = 1
    /\ last.op = "width"
    /\ last.ret = BMP_NOTINIT

\* C11: in every Loaded state the stored width and height are non-negative
\* and the pixel buffer holds exactly width * height elements, the bound
\* that get and set test the index against.
C11_BufferMatchesDimensions ==
    Loaded =>
      /\ dib.width >= 0
      /\ dib.height >= 0
      /\ pixel_array.ptr = "heap"
      /\ Len(pixel_array.mem) = dib.width * dib.height
      /\ pixel_max = SExt(Len(pixel_array.mem))

\* C12: on a Loaded image every row in [0, height) and col in [0, width) is
\* accepted by get and set, and no other such coordinate has the same index.
C12_CoordinatesAddressPixels ==
    [][(/\ Loaded
        /\ last'.op \in {"get", "set"}
        /\ InRange(last'.row)
        /\ InRange(last'.col)
        /\ last'.row.lo < dib.height
        /\ last'.col.lo < dib.width) =>
          /\ last'.ret = BMP_SUCCESS
          /\ \A r \in 0..(dib.height - 1), c \in 0..(dib.width - 1) :
                <<r, c>> # <<last'.row.lo, last'.col.lo>> =>
                   pixel_index(r, c) # pixel_index(last'.row.lo, last'.col.lo)]_vars
====
